---- MODULE Spec2Model ----
(***************************************************************************)
(* A model of the credit-card form application (src/src/main.rs):          *)
(* the eframe render loop (MyApp::update), the detached submission tasks   *)
(* (MyApp::send_card_info) and the Arc<Mutex<Vec<String>>> they share.     *)
(*                                                                         *)
(* Strings are TLA+ strings joined with \o.  The text the user types is a  *)
(* sequence of characters, each with its UTF-8 width, because the code     *)
(* measures and slices card_number in bytes.                                *)
(***************************************************************************)
EXTENDS Integers, Sequences, FiniteSets, Bags, TLC

VARIABLES
    card_number,        \* MyApp.card_number: sequence of characters
    expiry_date,        \* MyApp.expiry_date
    security_code,      \* MyApp.security_code
    message,            \* MyApp.message: None or Some(string)
    anime_texture,      \* MyApp.anime_texture: None or Some(handle)
    image_size,         \* MyApp.image_size: <<width, height>>
    pending_messages,   \* the Vec<String> behind MyApp.pending_messages
    mutex,              \* owner of the Mutex around pending_messages
    tasks,              \* the spawned send_card_info futures, by slot
    frame_pc,           \* where the render thread is inside update()
    frame_cause,        \* what made the host run the current frame
    repaint_requested,  \* the egui context's "request next frame" signal
    window,             \* the native window / process: open, closing, ...
    embedded_image,     \* resources::EMBEDDED_IMAGE as the decoder sees it
    decode_count,       \* probe: calls of image::load_from_memory
    pending_by,         \* history: the slot that pushed each pending entry
    drained,            \* history: what the latest messages.pop() returned
    drains,             \* history: what the pops of the slot's entries returned
    frame_input,        \* the input events the frame under way has handled
    painted,            \* what the latest frame drew: close button, icon, panel
    commands            \* the ViewportCommands the frame under way has sent

appVars  == <<card_number, expiry_date, security_code, message>>
imgVars  == <<anime_texture, image_size, embedded_image, decode_count>>
boxVars  == <<pending_messages, pending_by, mutex>>
hostVars == <<frame_pc, frame_cause, repaint_requested, window>>
histVars == <<drained, drains>>
outVars  == <<frame_input, painted, commands>>
vars == <<appVars, imgVars, boxVars, hostVars, tasks, histVars, outVars>>

-----------------------------------------------------------------------------
(* Bounds of the model.                                                    *)

\* submission tasks that may be in flight or undelivered at one time
MaxTasks == 2
\* characters of the longest card number drawn for the submit handler
MaxIdLen == 5
\* decodes of the embedded image followed when it never decodes
MaxDecodes == 6

Tasks == 1..MaxTasks

-----------------------------------------------------------------------------
(* Option<T> and Result<T, E>.                                             *)

None == [tag |-> "None"]
Some(v) == [tag |-> "Some", val |-> v]
Ok(v) == [tag |-> "Ok", val |-> v]
Err(e) == [tag |-> "Err", val |-> e]

-----------------------------------------------------------------------------
(* Text.  A typed field is a sequence of characters; a character is named  *)
(* by a one-element string, or by "{xxxx}" for a scalar outside ASCII.     *)

\* é, two bytes in UTF-8
EAcute == "{e9}"
\* the euro sign, three bytes in UTF-8
Euro == "{20ac}"

\* char::len_utf8
Utf8Width(c) == CASE c = EAcute -> 2
                  [] c = Euro -> 3
                  [] OTHER -> 1

\* String::len: the length in bytes
RECURSIVE ByteLen(_)
ByteLen(s) == IF s = <<>> THEN 0 ELSE Utf8Width(Head(s)) + ByteLen(Tail(s))

\* the String as the text a format! argument contributes
RECURSIVE Text(_)
Text(s) == IF s = <<>> THEN "" ELSE Head(s) \o Text(Tail(s))

\* str::is_char_boundary
RECURSIVE IsCharBoundary(_, _)
IsCharBoundary(s, n) ==
    IF n = 0 THEN TRUE
    ELSE IF s = <<>> THEN FALSE
    ELSE IF n < Utf8Width(Head(s)) THEN FALSE
    ELSE IsCharBoundary(Tail(s), n - Utf8Width(Head(s)))

\* &s[n..] for n on a character boundary: the characters from byte n on
RECURSIVE SliceFrom(_, _)
SliceFrom(s, n) ==
    IF n = 0 \/ s = <<>> THEN s
    ELSE SliceFrom(Tail(s), n - Utf8Width(Head(s)))

\* MaskedSuffix with the comparison off by one: len() >= 4
MaskedSuffixFromFour(s) ==
    IF ByteLen(s) >= 4
    THEN IF IsCharBoundary(s, ByteLen(s) - 4)
         THEN Ok(Text(SliceFrom(s, ByteLen(s) - 4)))
         ELSE Err("panic")
    ELSE Ok("XXXX")

\* The argument of the "Sending..." format! (main.rs 444-448): Ok(text), or
\* Err("panic") where the slice index falls inside a character.
MaskedSuffix(s) ==
    IF ByteLen(s) > 4
    THEN IF IsCharBoundary(s, ByteLen(s) - 4)
         THEN Ok(Text(SliceFrom(s, ByteLen(s) - 4)))
         ELSE Err("panic")
    ELSE Ok("XXXX")

\* SendingMessage giving way to a result the same frame has just drained
SendingMessageUnlessDrained(suffix) ==
    IF drained.tag = "Some" THEN drained.val
    ELSE "Th-thanks for your card ending in " \o suffix \o "! (Sending...)"

\* format!("Th-thanks for your card ending in {}! (Sending...)", ..)
SendingMessage(suffix) ==
    "Th-thanks for your card ending in " \o suffix \o "! (Sending...)"

-----------------------------------------------------------------------------
(* The HTTP exchange as send_card_info sees it.                            *)

\* http::StatusCode::canonical_reason for the codes of the model
CanonicalReason(c) == CASE c = 200 -> "OK"
                        [] c = 201 -> "Created"
                        [] c = 204 -> "No Content"
                        [] c = 400 -> "Bad Request"
                        [] c = 404 -> "Not Found"
                        [] c = 500 -> "Internal Server Error"
                        [] c = 503 -> "Service Unavailable"
                        [] OTHER -> "<unknown status code>"

\* Display of StatusCode, the {} of main.rs 253: the code and its reason
StatusDisplay(c) == ToString(c) \o " " \o CanonicalReason(c)

\* IsSuccess taking 200 alone for success
IsSuccessOnly200(c) == c = 200

\* StatusCode::is_success
IsSuccess(c) == 200 <= c /\ c < 300

\* res.text().await.unwrap_or_else(|_| "No response body".to_string())
BodyText(text) == IF text.tag = "Ok" THEN text.val ELSE "No response body"

\* main.rs 253
StatusError(c, text) ==
    "Failed to send card info: Status " \o StatusDisplay(c) \o " - " \o BodyText(text)

\* main.rs 256
SendError(e) == "Failed to send request: " \o e

\* main.rs 259
BuildError(e) == "Failed to build reqwest client: " \o e

\* main.rs 249
SuccessText == "Successfully sent card info!"

\* .json(&card_info) (main.rs 243): the CardInfo of lines 15-20 as serde_json
\* writes it; no character of the model needs a JSON escape
Json(info) ==
    "{\"card_number\":\"" \o Text(info.card_number)
        \o "\",\"expiry_date\":\"" \o Text(info.expiry_date)
        \o "\",\"security_code\":\"" \o Text(info.security_code) \o "\"}"

\* The string pushed for a result (main.rs 264-267)
Posted(result) ==
    IF result.tag = "Ok" THEN result.val ELSE "Error: " \o result.val

-----------------------------------------------------------------------------
(* Image cache: MyApp::load_image.                                         *)

\* MyApp::default, main.rs 40
DefaultImageSize == <<150, 200>>

TextureName == "anime-character"

\* LoadImageFn without the is_none() test of line 48
LoadImageFnAlways(st) ==
    IF embedded_image.tag = "Ok"
    THEN [anime_texture |-> Some(TextureName),
          image_size |-> embedded_image.val,
          decode_count |-> st.decode_count + 1]
    ELSE [st EXCEPT !.decode_count = @ + 1]

\* LoadImageFn caching the dimensions of nothing when the decode fails
LoadImageFnZeroes(st) ==
    IF st.anime_texture = None
    THEN IF embedded_image.tag = "Ok"
         THEN [anime_texture |-> Some(TextureName),
               image_size |-> embedded_image.val,
               decode_count |-> st.decode_count + 1]
         ELSE [st EXCEPT !.image_size = <<0, 0>>, !.decode_count = @ + 1]
    ELSE st

\* load_image's effect on [anime_texture, image_size, decode_count]
LoadImageFn(st) ==
    IF st.anime_texture = None
    THEN IF embedded_image.tag = "Ok"
         THEN [anime_texture |-> Some(TextureName),
               image_size |-> embedded_image.val,
               decode_count |-> st.decode_count + 1]
         ELSE [st EXCEPT !.decode_count = @ + 1]
    ELSE st

ImageState == [anime_texture |-> anime_texture, image_size |-> image_size,
               decode_count |-> decode_count]

\* n calls of load_image in a row
RECURSIVE LoadImageTimes(_, _)
LoadImageTimes(st, n) == IF n = 0 THEN st ELSE LoadImageTimes(LoadImageFn(st), n - 1)

\* the calls of load_image made by one step of the frame
LoadImage(n) ==
    LET st == LoadImageTimes(ImageState, n) IN
    /\ anime_texture' = st.anime_texture
    /\ image_size' = st.image_size
    /\ decode_count' = st.decode_count
    /\ UNCHANGED embedded_image

-----------------------------------------------------------------------------
(* Submission tasks: the futures of MyApp::send_card_info.                 *)

\* the owner of the mutex: nobody, the render thread, or a task
Free == [by |-> "nobody", id |-> 0]
Render == [by |-> "render", id |-> 0]
HeldBy(t) == [by |-> "task", id |-> t]

\* a slot no future occupies
IdleTask == [pc |-> "idle", card_info |-> None, client |-> None, body |-> None,
             res |-> None, text |-> None, result |-> None,
             attempts |-> 0, posts |-> 0, repaints |-> 0]

\* SpawnedTask run inside the frame up to its first await, as a block_on or
\* an .await in update() would
SpawnedTaskAwaited(info) ==
    [IdleTask EXCEPT !.pc = "await_send", !.card_info = Some(info),
                     !.client = Some(Ok("client")), !.body = Some(Json(info)),
                     !.attempts = 1]

\* tokio::spawn(async move { MyApp::send_card_info(card_info, ..).await })
SpawnedTask(info) == [IdleTask EXCEPT !.pc = "spawned", !.card_info = Some(info)]

Range(f) == {f[i] : i \in DOMAIN f}

\* the future is gone and nothing it pushed is still pending
SlotFree(t) ==
    /\ tasks[t].pc \in {"idle", "done", "cancelled"}
    /\ t \notin Range(pending_by)

\* CardInfo { card_number: self.card_number.clone(), .. } (430-434)
FormRecord == [card_number |-> card_number, expiry_date |-> expiry_date,
               security_code |-> security_code]

\* TaskStart reading the form when the future is first polled, as a future
\* that shared the fields of MyApp would
TaskStartReadsForm(t, client) ==
    /\ tasks[t].pc = "spawned"
    /\ tasks' = [tasks EXCEPT ![t] =
          IF client.tag = "Ok"
          THEN [@ EXCEPT !.client = client,
                         !.card_info = Some(FormRecord),
                         !.body = Some(Json(FormRecord)),
                         !.attempts = @ + 1, !.pc = "await_send"]
          ELSE [@ EXCEPT !.client = client,
                         !.result = Some(Err(BuildError(client.val))),
                         !.pc = "lock"]]
    /\ UNCHANGED <<appVars, imgVars, boxVars, hostVars, histVars, outVars>>

\* TaskStart returning early, without a push, when the client fails to build
TaskStartGivesUp(t, client) ==
    /\ tasks[t].pc = "spawned"
    /\ tasks' = [tasks EXCEPT ![t] =
          IF client.tag = "Ok"
          THEN [@ EXCEPT !.client = client,
                         !.body = Some(Json(tasks[t].card_info.val)),
                         !.attempts = @ + 1, !.pc = "await_send"]
          ELSE [@ EXCEPT !.client = client,
                         !.result = Some(Err(BuildError(client.val))),
                         !.pc = "done"]]
    /\ UNCHANGED <<appVars, imgVars, boxVars, hostVars, histVars, outVars>>

\* First poll: build the client (235-237); on Ok serialize the record, issue
\* the POST and suspend at .send().await (241-244), on Err go on to the lock
\* with the error (259).
TaskStart(t, client) ==
    /\ tasks[t].pc = "spawned"
    /\ tasks' = [tasks EXCEPT ![t] =
          IF client.tag = "Ok"
          THEN [@ EXCEPT !.client = client,
                         !.body = Some(Json(tasks[t].card_info.val)),
                         !.attempts = @ + 1, !.pc = "await_send"]
          ELSE [@ EXCEPT !.client = client,
                         !.result = Some(Err(BuildError(client.val))),
                         !.pc = "lock"]]
    /\ UNCHANGED <<appVars, imgVars, boxVars, hostVars, histVars, outVars>>

\* TaskResponse sending the POST once more after a first transport failure
TaskResponseRetries(t, res) ==
    /\ tasks[t].pc = "await_send"
    /\ tasks' = [tasks EXCEPT ![t] =
          IF res.tag = "Err" /\ tasks[t].attempts < 2
          THEN [@ EXCEPT !.attempts = @ + 1]
          ELSE IF res.tag = "Err"
          THEN [@ EXCEPT !.res = Some(res),
                         !.result = Some(Err(SendError(res.val))),
                         !.pc = "lock"]
          ELSE IF IsSuccess(res.val)
          THEN [@ EXCEPT !.res = Some(res),
                         !.result = Some(Ok(SuccessText)),
                         !.pc = "lock"]
          ELSE [@ EXCEPT !.res = Some(res), !.pc = "await_text"]]
    /\ UNCHANGED <<appVars, imgVars, boxVars, hostVars, histVars, outVars>>

\* .send().await returns (246-257)
TaskResponse(t, res) ==
    /\ tasks[t].pc = "await_send"
    /\ tasks' = [tasks EXCEPT ![t] =
          IF res.tag = "Err"
          THEN [@ EXCEPT !.res = Some(res),
                         !.result = Some(Err(SendError(res.val))),
                         !.pc = "lock"]
          ELSE IF IsSuccess(res.val)
          THEN [@ EXCEPT !.res = Some(res),
                         !.result = Some(Ok(SuccessText)),
                         !.pc = "lock"]
          ELSE [@ EXCEPT !.res = Some(res), !.pc = "await_text"]]
    /\ UNCHANGED <<appVars, imgVars, boxVars, hostVars, histVars, outVars>>

\* res.text().await returns (251-253)
TaskBody(t, text) ==
    /\ tasks[t].pc = "await_text"
    /\ tasks' = [tasks EXCEPT ![t] =
          [@ EXCEPT !.text = Some(text),
                    !.result = Some(Err(StatusError(tasks[t].res.val.val, text))),
                    !.pc = "lock"]]
    /\ UNCHANGED <<appVars, imgVars, boxVars, hostVars, histVars, outVars>>

\* TaskLock going ahead without waiting for the mutex to be free
TaskLockBarges(t) ==
    /\ tasks[t].pc = "lock"
    /\ mutex' = HeldBy(t)
    /\ tasks' = [tasks EXCEPT ![t].pc = "locked"]
    /\ UNCHANGED <<appVars, imgVars, pending_messages, pending_by, hostVars, histVars, outVars>>

\* messages_tx.lock().unwrap() (263): blocks until the mutex is free
TaskLock(t) ==
    /\ tasks[t].pc = "lock"
    /\ mutex = Free
    /\ mutex' = HeldBy(t)
    /\ tasks' = [tasks EXCEPT ![t].pc = "locked"]
    /\ UNCHANGED <<appVars, imgVars, pending_messages, pending_by, hostVars, histVars, outVars>>

\* the Vec after messages.push(m)
Push(vec, m) == Append(vec, m)

\* TaskPush that also shows the string, writing the message itself
TaskPushShows(t) ==
    /\ tasks[t].pc = "locked"
    /\ pending_messages' = Push(pending_messages, Posted(tasks[t].result.val))
    /\ pending_by' = Append(pending_by, t)
    /\ message' = Some(Posted(tasks[t].result.val))
    /\ tasks' = [tasks EXCEPT ![t].pc = "pushed", ![t].posts = @ + 1]
    /\ UNCHANGED <<card_number, expiry_date, security_code, imgVars, mutex,
                   hostVars, histVars, outVars>>

\* messages.push(..) (264-267)
TaskPush(t) ==
    /\ tasks[t].pc = "locked"
    /\ pending_messages' = Push(pending_messages, Posted(tasks[t].result.val))
    /\ pending_by' = Append(pending_by, t)
    /\ tasks' = [tasks EXCEPT ![t].pc = "pushed", ![t].posts = @ + 1]
    /\ UNCHANGED <<appVars, imgVars, mutex, hostVars, histVars, outVars>>

\* ctx.request_repaint() (268), the guard still held
TaskRepaint(t) ==
    /\ tasks[t].pc = "pushed"
    /\ repaint_requested' = TRUE
    /\ tasks' = [tasks EXCEPT ![t].pc = "repainted", ![t].repaints = @ + 1]
    /\ UNCHANGED <<appVars, imgVars, boxVars, frame_pc, frame_cause, window, histVars, outVars>>

\* the function returns (269): the MutexGuard is dropped, the future is done
TaskReturn(t) ==
    /\ tasks[t].pc = "repainted"
    /\ mutex' = Free
    /\ tasks' = [tasks EXCEPT ![t].pc = "done"]
    /\ UNCHANGED <<appVars, imgVars, pending_messages, pending_by, hostVars, histVars, outVars>>

-----------------------------------------------------------------------------
(* Render loop: one frame of MyApp::update, split where it can block.      *)

NoInput == [kind |-> "none"]
SubmitClick == [kind |-> "submit"]
CloseClick == [kind |-> "close"]
EditCard(s) == [kind |-> "edit", field |-> "card_number", value |-> s]
EditExpiry(s) == [kind |-> "edit", field |-> "expiry_date", value |-> s]
EditCode(s) == [kind |-> "edit", field |-> "security_code", value |-> s]
\* the pointer rests on the close button
HoverClose == [kind |-> "hover"]
\* a touch on the close button: a click that leaves no pointer to hover
CloseTap == [kind |-> "tap"]

\* close_button_response.hovered() (204); CloseClick is a mouse click, the
\* pointer still on the button
Hovered(input) == input.kind \in {"hover", "close"}

\* close_button_response.clicked() (225)
Clicked(input) == input.kind \in {"close", "tap"}

\* CloseButton painted the same whether hovered or not
CloseButtonPlain(hovered) == [fill |-> "transparent", glyph |-> "black"]

\* the close button as the frame paints it (204-223): the red rectangle and
\* a white X when hovered, no rectangle and a black X otherwise
CloseButton(hovered) ==
    IF hovered THEN [fill |-> "red", glyph |-> "white"]
    ELSE [fill |-> "transparent", glyph |-> "black"]

\* the title bar icon (148-171)
Icon(texture) == IF texture # None THEN "texture" ELSE "fallback square"

\* the left side of the central panel (355-372)
ImagePanel(texture) ==
    IF texture # None THEN "texture" ELSE "<Image Failed to Load>"

\* what one pass of the title bar and the central panel paints
Paint(input, texture) ==
    [close_fill |-> CloseButton(Hovered(input)).fill,
     close_glyph |-> CloseButton(Hovered(input)).glyph,
     icon |-> Icon(texture),
     panel |-> ImagePanel(texture)]

\* no frame has been painted yet
NothingPainted == [close_fill |-> "none", close_glyph |-> "none",
                   icon |-> "none", panel |-> "none"]

\* the ViewportCommands of the close button (225-227)
CloseCommands(input) == IF Clicked(input) THEN <<"Close">> ELSE <<>>

\* The host calls update(): load_image (274), then the render thread asks for
\* the mutex (278).  Any frame answers the pending repaint request.
FrameStart(cause) ==
    /\ window = "open"
    /\ frame_pc = "idle"
    /\ cause = "repaint" => repaint_requested
    /\ anime_texture # None \/ decode_count + 2 <= MaxDecodes
    /\ LoadImage(1)
    /\ repaint_requested' = FALSE
    /\ frame_cause' = cause
    /\ frame_pc' = "lock"
    /\ frame_input' = NoInput
    /\ commands' = <<>>
    /\ UNCHANGED <<appVars, boxVars, window, tasks, histVars, painted>>

\* self.pending_messages.lock().unwrap() (278)
FrameLock ==
    /\ frame_pc = "lock"
    /\ mutex = Free
    /\ mutex' = Render
    /\ frame_pc' = "drain"
    /\ UNCHANGED <<appVars, imgVars, pending_messages, pending_by, frame_cause,
                   repaint_requested, window, tasks, histVars, outVars>>

\* PopValue of a queue: the oldest entry (remove(0)) in place of the newest
PopValueOldest(vec) == IF vec = <<>> THEN None ELSE Some(vec[1])

\* Vec::pop: the value returned
PopValue(vec) == IF vec = <<>> THEN None ELSE Some(vec[Len(vec)])

\* PopRest of a read that removes nothing (last() in place of pop())
PopRestKeeps(vec) == vec

\* PopRest of a drain that empties the Vec (drain(..) or clear() after last())
PopRestClears(vec) == <<>>

\* Vec::pop: the Vec left
PopRest(vec) == IF vec = <<>> THEN vec ELSE SubSeq(vec, 1, Len(vec) - 1)

\* if let Some(msg) = messages.pop() { self.message = Some(msg) }, then the
\* guard is dropped (279-283)
FrameDrain ==
    /\ frame_pc = "drain"
    /\ LET got == PopValue(pending_messages) IN
        /\ message' = IF got.tag = "Some" THEN Some(got.val) ELSE message
        /\ drained' = got
        /\ drains' = IF pending_by # <<>>
                     THEN [drains EXCEPT ![pending_by[Len(pending_by)]] =
                                             Append(@, got)]
                     ELSE drains
    /\ pending_messages' = PopRest(pending_messages)
    /\ pending_by' = SubSeq(pending_by, 1, Len(pending_by) - 1)
    /\ mutex' = Free
    /\ frame_pc' = "ui"
    /\ UNCHANGED <<card_number, expiry_date, security_code, imgVars, frame_cause,
                   repaint_requested, window, tasks, outVars>>

\* the text fields after the frame's keystrokes (399-423)
Edited(field, old, input) ==
    IF input.kind = "edit" /\ input.field = field THEN input.value ELSE old

\* the slot a new future takes
NextSlot(slots) == CHOOSE t \in slots :
    SlotFree(t) /\ \A u \in slots : SlotFree(u) => t <= u

\* The rest of update(): theme, custom_title_bar (with its own load_image, 85,
\* and the close button, 195-227), the image panel, the form, and the submit
\* button (429-450).  A frame the host ran for a repaint request carries no
\* input.  A frame that panics in the submit handler is never presented.
FrameUI(input, slots) ==
    /\ frame_pc = "ui"
    /\ frame_cause = "repaint" => input = NoInput
    /\ LoadImage(1)
    /\ window' = IF Clicked(input) THEN "closing" ELSE window
    /\ frame_input' = input
    /\ commands' = CloseCommands(input)
    /\ card_number' = Edited("card_number", card_number, input)
    /\ expiry_date' = Edited("expiry_date", expiry_date, input)
    /\ security_code' = Edited("security_code", security_code, input)
    /\ IF input.kind = "submit"
       THEN /\ \E t \in slots : SlotFree(t)
            /\ LET t == NextSlot(slots)
                   card_info == [card_number |-> card_number,
                                 expiry_date |-> expiry_date,
                                 security_code |-> security_code]
                   suffix == MaskedSuffix(card_number)
               IN /\ tasks' = [tasks EXCEPT ![t] = SpawnedTask(card_info)]
                  /\ drains' = [drains EXCEPT ![t] = <<>>]
                  /\ IF suffix.tag = "Ok"
                     THEN /\ message' = Some(SendingMessage(suffix.val))
                          /\ painted' = Paint(input, anime_texture')
                          /\ frame_pc' = "idle"
                     ELSE /\ message' = message
                          /\ painted' = painted
                          /\ frame_pc' = "panicked"
       ELSE /\ UNCHANGED <<tasks, drains, message>>
            /\ painted' = Paint(input, anime_texture')
            /\ frame_pc' = "idle"
    /\ UNCHANGED <<boxVars, frame_cause, repaint_requested, drained>>

\* run_native returns after the Close command, or update() panicked: main
\* ends and the tokio runtime is dropped, which drops every future that is
\* suspended at an await; a future being polled runs on to its next await.
HostExit ==
    /\ \/ window = "closing" /\ frame_pc = "idle"
       \/ window = "open" /\ frame_pc = "panicked"
    /\ window' = "closed"
    /\ tasks' = [t \in Tasks |->
          IF tasks[t].pc \in {"spawned", "await_send", "await_text"}
          THEN [tasks[t] EXCEPT !.pc = "cancelled"]
          ELSE tasks[t]]
    /\ UNCHANGED <<appVars, imgVars, boxVars, frame_pc, frame_cause,
                   repaint_requested, histVars, outVars>>

-----------------------------------------------------------------------------
(* The inputs of the specifications.                                       *)

\* the scenario's card of section 8
SampleCard == <<"4", "1", "1", "1", "1", "1", "1", "1",
                "1", "1", "1", "1", "1", "1", "1", "1">>
SampleExpiry == <<"1", "2", "/", "2", "9">>
SampleCode == <<"1", "2", "3">>

\* MyApp::default (32-44) with the host about to paint the first frame
InitApp ==
    /\ expiry_date = <<>>
    /\ security_code = <<>>
    /\ message = None
    /\ anime_texture = None
    /\ image_size = DefaultImageSize
    /\ pending_messages = <<>>
    /\ pending_by = <<>>
    /\ mutex = Free
    /\ tasks = [t \in Tasks |-> IdleTask]
    /\ frame_pc = "idle"
    /\ frame_cause = "repaint"
    /\ repaint_requested = TRUE
    /\ window = "open"
    /\ decode_count = 0
    /\ drained = None
    /\ drains = [t \in Tasks |-> <<>>]
    /\ frame_input = NoInput
    /\ painted = NothingPainted
    /\ commands = <<>>

\* an embedded image that decodes
GoodImages == {Ok(<<300, 400>>)}
\* an embedded resource the decoder rejects
BadImage == Err("decode")

Init == InitApp /\ card_number = <<>> /\ embedded_image \in GoodImages

Clients == {Ok("client"), Err("builder error")}
Responses == {Err("connection refused"), Ok(200), Ok(500)}
Bodies == {Ok("server error"), Err("decode")}
Inputs == {NoInput, SubmitClick, CloseClick}

TaskStep(t) ==
    \/ \E c \in Clients : TaskStart(t, c)
    \/ \E r \in Responses : TaskResponse(t, r)
    \/ \E b \in Bodies : TaskBody(t, b)
    \/ TaskLock(t)
    \/ TaskPush(t)
    \/ TaskRepaint(t)
    \/ TaskReturn(t)

Next ==
    \/ \E cause \in {"repaint", "input"} : FrameStart(cause)
    \/ FrameLock
    \/ FrameDrain
    \/ \E i \in Inputs : FrameUI(i, Tasks)
    \/ HostExit
    \/ \E t \in Tasks : TaskStep(t)

Spec == Init /\ [][Next]_vars

\* The scheduling the runtime and the host give: a spawned future is polled,
\* a network wait ends, a thread that asks for a free mutex gets it, a frame
\* that began ends, and a repaint request is answered by a frame.  Input
\* events are the user's and get no fairness.
Fairness ==
    /\ \A t \in Tasks : WF_vars(TaskStep(t))
    /\ WF_vars(FrameLock)
    /\ WF_vars(FrameDrain)
    /\ WF_vars(\E i \in Inputs : FrameUI(i, Tasks))
    /\ WF_vars(FrameStart("repaint"))

FairSpec == Spec /\ Fairness

-----------------------------------------------------------------------------
(* Mailbox: what is posted and what is drained.                            *)

RECURSIVE SeqBag(_)
SeqBag(s) == IF s = <<>> THEN EmptyBag ELSE SetToBag({Head(s)}) (+) SeqBag(Tail(s))

RECURSIVE BagSum(_, _)
BagSum(F(_), S) ==
    IF S = {} THEN EmptyBag
    ELSE LET t == CHOOSE x \in S : TRUE IN F(t) (+) BagSum(F, S \ {t})

\* the strings the future in slot t has pushed so far
PostedOf(t) ==
    IF tasks[t].posts > 0
    THEN [m \in {Posted(tasks[t].result.val)} |-> tasks[t].posts]
    ELSE EmptyBag

\* the strings the pops of slot t's entries have returned so far
DrainedOf(t) == SeqBag([i \in DOMAIN drains[t] |-> drains[t][i].val])

PostedBag == BagSum(PostedOf, Tasks)
DrainedBag == BagSum(DrainedOf, Tasks)

\* the step of the render thread that pops and releases
DrainStep == frame_pc = "drain" /\ frame_pc' = "ui"

C1_Conservation == PostedBag = SeqBag(pending_messages) (+) DrainedBag

C1_EmptyDrain ==
    DrainStep /\ pending_messages = <<>> => drained' = None /\ message' = message

\* C1: whatever the interleaving of the posts of the futures, the strings the
\* pops have returned together with the strings still pending are exactly the
\* multiset of the strings posted, so N posts followed by N pops return
\* exactly the N strings, none lost and none twice; and a pop that finds
\* the Vec empty returns None and leaves the displayed message alone.
C1_PostsThenDrains == []C1_Conservation /\ [][C1_EmptyDrain]_vars

\* every slot has posted, every entry has been popped, and one more pop
\* has just returned None
C1_Witness ==
    /\ \A t \in Tasks : tasks[t].pc = "done" /\ Len(drains[t]) = 1
    /\ pending_messages = <<>>
    /\ frame_pc = "ui"
    /\ drained = None

\* C2: if frames keep running, the entry of every slot that is pending is
\* eventually returned by a pop, and no entry is returned by two pops.
C2_EveryPostedDrainedOnce ==
    []<>(frame_pc = "drain") =>
        \A t \in Tasks :
            /\ [](t \in Range(pending_by) => <>(Len(drains[t]) = 1))
            /\ [](Len(drains[t]) <= 1)

-----------------------------------------------------------------------------
(* Submission task: one post, then one repaint request.                    *)

\* C3: a future never pushes twice nor requests a repaint twice, requests
\* the repaint only after its push, and once it is past request_repaint it
\* has pushed exactly one string and requested exactly one repaint, whichever
\* of the four outcomes it took.
C3_OnePostThenOneRepaint ==
    \A t \in Tasks :
        /\ tasks[t].posts <= 1
        /\ tasks[t].repaints <= tasks[t].posts
        /\ tasks[t].pc \in {"repainted", "done"} =>
              tasks[t].posts = 1 /\ tasks[t].repaints = 1
        /\ tasks[t].pc \in {"spawned", "await_send", "await_text", "lock",
                            "locked"} =>
              tasks[t].posts = 0 /\ tasks[t].repaints = 0

\* two futures are done, one after a client that failed to build and one
\* after a non-2xx answer
C3_Witness ==
    \E t, u \in Tasks :
        /\ tasks[t].pc = "done" /\ tasks[t].client.tag = "Err"
        /\ tasks[u].pc = "done" /\ tasks[u].text.tag = "Some"

\* C4: while the window is open, an entry is pending only if a frame that
\* will pop is under way, a repaint is requested, or a future is about to
\* request one: no entry is left to wait for an input event.
C4_DrainedByRepaintFrames ==
    (window = "open" /\ frame_pc # "panicked" /\ pending_messages # <<>>) =>
        \/ repaint_requested
        \/ frame_pc \in {"lock", "drain"}
        \/ \E t \in Tasks : tasks[t].pc = "pushed"

-----------------------------------------------------------------------------
(* The outcomes of one submission: every path of send_card_info, with the  *)
(* form filled in or not, one future at a time.                            *)

OneTask == {1}
StatusCodes == {200, 201, 204, 299, 400, 404, 500, 503}
BuildDetails == {"builder error"}
TransportDetails == {"connection refused",
                     "error sending request for url (https://slipstreamm.dev/api/card)"}
AllClients == {Ok("client")} \cup {Err(d) : d \in BuildDetails}
AllResponses == {Err(d) : d \in TransportDetails} \cup {Ok(c) : c \in StatusCodes}
AllBodies == {Ok("server error"), Ok("not found"), Ok(""), Err("decode")}
FormInputs == {NoInput, SubmitClick, EditCard(SampleCard),
               EditExpiry(SampleExpiry), EditCode(SampleCode)}

NextOutcome ==
    \/ \E cause \in {"repaint", "input"} : FrameStart(cause)
    \/ FrameLock
    \/ FrameDrain
    \/ \E i \in FormInputs : FrameUI(i, OneTask)
    \/ \E t \in OneTask :
        \/ \E c \in AllClients : TaskStart(t, c)
        \/ \E r \in AllResponses : TaskResponse(t, r)
        \/ \E b \in AllBodies : TaskBody(t, b)
        \/ TaskLock(t)
        \/ TaskPush(t)
        \/ TaskRepaint(t)
        \/ TaskReturn(t)

SpecOutcome == Init /\ [][NextOutcome]_vars

\* the strings of slot t's future that are pending or were popped
StringsOf(t) ==
    {pending_messages[i] : i \in {j \in DOMAIN pending_by : pending_by[j] = t}}
        \cup {drains[t][i].val : i \in DOMAIN drains[t]}

\* how many entries of slot t's future are pending or were popped
EntriesOf(t) ==
    Cardinality({j \in DOMAIN pending_by : pending_by[j] = t}) + Len(drains[t])

\* the future in slot t is past its push
HasPushed(t) == tasks[t].pc \in {"pushed", "repainted", "done"}

\* the endpoint answered slot t's POST with status c
Answered(t, c) == tasks[t].res = Some(Ok(c))

\* C5: a future whose POST was answered with a 2xx status never reads the
\* body, and the one string it pushes is "Successfully sent card info!".
C5_SuccessMessage ==
    \A t \in Tasks : \A c \in 200..299 :
        Answered(t, c) =>
            /\ tasks[t].text = None
            /\ StringsOf(t) \subseteq {"Successfully sent card info!"}
            /\ HasPushed(t) => EntriesOf(t) = 1
            /\ ~HasPushed(t) => EntriesOf(t) = 0

\* the scenario of section 8 with a 204: the sample record was sent and the
\* success string is on display
C5_Witness ==
    /\ Answered(1, 204)
    /\ tasks[1].pc = "done"
    /\ tasks[1].card_info = Some([card_number |-> SampleCard,
                                  expiry_date |-> SampleExpiry,
                                  security_code |-> SampleCode])
    /\ message = Some("Successfully sent card info!")

\* C6: a future whose POST was answered with a non-2xx status c pushes
\* "Error: Failed to send card info: Status <c> - <b>", <c> being the number
\* alone and <b> the body, or "No response body" when it cannot be read.
C6_StatusErrorMessage ==
    \A t \in Tasks : \A c \in StatusCodes \ (200..299) :
        (Answered(t, c) /\ HasPushed(t)) =>
            StringsOf(t) =
                {"Error: Failed to send card info: Status " \o ToString(c) \o " - "
                    \o (IF tasks[t].text.val.tag = "Ok" THEN tasks[t].text.val.val
                        ELSE "No response body")}

\* what may follow a prefix of an error string
Remainders ==
    {" " \o d : d \in TransportDetails \cup BuildDetails}
        \cup {" reqwest client: " \o d : d \in BuildDetails}

HasPrefix(str, p) == \E r \in Remainders : str = p \o r

\* a step of a future (or the runtime dropping it)
TaskMoved ==
    \E t \in Tasks : tasks[t].pc \notin {"idle", "done", "cancelled"}
                     /\ tasks'[t] # tasks[t]

C7_FailureStrings ==
    \A t \in Tasks :
        /\ tasks[t].attempts <= 1
        /\ tasks[t].client.tag = "Err" => tasks[t].attempts = 0
        /\ (tasks[t].res.tag = "Some" /\ tasks[t].res.val.tag = "Err") =>
              /\ \A m \in StringsOf(t) : HasPrefix(m, "Error: Failed to send request:")
              /\ HasPushed(t) => EntriesOf(t) = 1
        /\ tasks[t].client.tag = "Err" =>
              /\ \A m \in StringsOf(t) : HasPrefix(m, "Error: Failed to build")
              /\ HasPushed(t) => EntriesOf(t) = 1

\* C7: a transport failure ends in one pushed string that starts with
\* "Error: Failed to send request:" and a client that cannot be built in one
\* that starts with "Error: Failed to build"; a future issues at most one
\* POST (none when the client fails), and no step of a future changes the
\* form fields or the displayed message.
C7_FailuresBecomeStrings ==
    []C7_FailureStrings /\ [][TaskMoved => UNCHANGED appVars]_vars

\* a refused connection has been reported and is on display
C7_Witness ==
    /\ tasks[1].res = Some(Err("connection refused"))
    /\ tasks[1].pc = "done"
    /\ tasks[1].attempts = 1
    /\ message = Some("Error: Failed to send request: connection refused")

-----------------------------------------------------------------------------
(* The submit handler on every card number of up to MaxIdLen characters.   *)

Alphabet == {"4", "1", EAcute, Euro}

\* the sequences over S of length at most n
RECURSIVE SeqsUpTo(_, _)
SeqsUpTo(S, n) ==
    IF n = 0 THEN {<<>>}
    ELSE LET shorter == SeqsUpTo(S, n - 1)
         IN shorter \cup {Append(q, c) : q \in shorter, c \in S}

InitSubmit ==
    /\ InitApp
    /\ card_number \in SeqsUpTo(Alphabet, MaxIdLen)
    /\ embedded_image \in GoodImages

NextSubmit ==
    \/ \E cause \in {"repaint", "input"} : FrameStart(cause)
    \/ FrameLock
    \/ FrameDrain
    \/ \E i \in {NoInput, SubmitClick} : FrameUI(i, Tasks)
    \/ HostExit

SpecSubmit == InitSubmit /\ [][NextSubmit]_vars

\* a submit click has been handled (its future is spawned and has not run)
Submitted == \E t \in Tasks : tasks[t].pc = "spawned"

\* the last n characters of s
LastChars(s, n) == IF Len(s) <= n THEN s ELSE SubSeq(s, Len(s) - n + 1, Len(s))

\* C8: after a frame that handled a submit click, the displayed notice
\* embeds "XXXX" when the card number has at most 4 characters and its last
\* 4 characters otherwise.
C8_MaskByCharacters ==
    (Submitted /\ frame_pc # "panicked") =>
        message = Some("Th-thanks for your card ending in "
                        \o (IF Len(card_number) <= 4 THEN "XXXX"
                            ELSE Text(LastChars(card_number, 4)))
                        \o "! (Sending...)")

\* C9 as stated: the placeholder is shown only for fewer than 4 characters,
\* and a card number of exactly 4 characters is shown in full.
C9_PlaceholderBelowFour ==
    Submitted =>
        /\ message = Some("Th-thanks for your card ending in XXXX! (Sending...)")
              => Len(card_number) < 4
        /\ Len(card_number) = 4 =>
              message = Some("Th-thanks for your card ending in "
                              \o Text(card_number) \o "! (Sending...)")

\* C9 as the code has it: a card number of at most 4 bytes, so also one of
\* exactly 4 ASCII characters, is shown by the placeholder.
C9_PlaceholderUpToFourBytes ==
    (Submitted /\ ByteLen(card_number) <= 4) =>
        message = Some("Th-thanks for your card ending in XXXX! (Sending...)")

\* "4111" was submitted and the placeholder is on display
C9_Witness ==
    /\ Submitted
    /\ frame_pc = "idle"
    /\ card_number = <<"4", "1", "1", "1">>
    /\ message = Some("Th-thanks for your card ending in XXXX! (Sending...)")

-----------------------------------------------------------------------------
(* The image cache on an embedded resource that decodes or does not.       *)

AllImages == GoodImages \cup {Ok(<<640, 480>>), BadImage}
ImageInputs == {NoInput, CloseClick, EditCard(SampleCard),
                EditExpiry(SampleExpiry), EditCode(SampleCode)}

InitImage == InitApp /\ card_number = <<>> /\ embedded_image \in AllImages

NextImage ==
    \/ \E cause \in {"repaint", "input"} : FrameStart(cause)
    \/ FrameLock
    \/ FrameDrain
    \/ \E i \in ImageInputs : FrameUI(i, Tasks)
    \/ HostExit

SpecImage == InitImage /\ [][NextImage]_vars

\* load_image has been called at least once: its first call always decodes
LoadedOnce == decode_count >= 1

\* C10 as stated: after the first call of load_image no later call decodes
\* or changes the texture handle or the cached dimensions.
C10_DecodeOnlyOnce ==
    [][LoadedOnce => UNCHANGED <<decode_count, anime_texture, image_size>>]_vars

C10_LaterCalls ==
    LoadedOnce =>
        /\ UNCHANGED <<anime_texture, image_size>>
        /\ anime_texture # None => UNCHANGED decode_count

C10_Cache ==
    /\ anime_texture # None =>
          decode_count = 1 /\ Some(image_size) = [embedded_image EXCEPT !.tag = "Some"]
    /\ anime_texture = None => image_size = DefaultImageSize

\* C10 as the code has it: after the first call of load_image no later
\* call changes the texture handle or the cached dimensions, and none
\* decodes again once a decode has succeeded; while the handle is absent
\* every call decodes again.
C10_IdempotentAfterSuccess == []C10_Cache /\ [][C10_LaterCalls]_vars

\* two edit frames have run after the first frame: load_image was called
\* six times and decoded once
C10_Witness ==
    /\ anime_texture = Some(TextureName)
    /\ decode_count = 1
    /\ image_size = <<640, 480>>
    /\ card_number = SampleCard /\ expiry_date = SampleExpiry
    /\ frame_pc = "idle"

-----------------------------------------------------------------------------
(* The life of a future: from the click that spawns it to its return.      *)

\* C11: no future is ever dropped short of its push: in every reachable
\* state, also after the Close command was sent and run_native and main
\* have returned, a future that was spawned is still on its way to its push
\* and repaint request or has returned.
C11_NoCancellation ==
    \A t \in Tasks :
        tasks[t].pc \in {"idle", "spawned", "await_send", "await_text", "lock",
                         "locked", "pushed", "repainted", "done"}

\* the slots no click has used yet
FreshSlots == {t \in Tasks : tasks[t].pc = "idle"}

\* Up to MaxTasks submit clicks, each taking a slot of its own, so that the
\* futures ever spawned can be counted.
NextClicks ==
    \/ \E cause \in {"repaint", "input"} : FrameStart(cause)
    \/ FrameLock
    \/ FrameDrain
    \/ \E i \in Inputs : FrameUI(i, FreshSlots)
    \/ HostExit
    \/ \E t \in Tasks : TaskStep(t)

SpecClicks == Init /\ [][NextClicks]_vars

RECURSIVE SumOver(_, _)
SumOver(F(_), S) ==
    IF S = {} THEN 0
    ELSE LET t == CHOOSE x \in S : TRUE IN F(t) + SumOver(F, S \ {t})

AttemptsOf(t) == tasks[t].attempts
PostsOf(t) == tasks[t].posts

\* the POSTs issued so far, the strings pushed so far, and the slots taken
\* so far, one by each handled submit click
PostAttempts == SumOver(AttemptsOf, Tasks)
PostedResults == SumOver(PostsOf, Tasks)
SubmitClicks == Cardinality(Tasks \ FreshSlots)

\* the step of the render thread that handles a submit click
SubmitStep == frame_pc = "ui" /\ frame_pc' # "ui" /\ frame_input' = SubmitClick

\* the slots in which the step spawns a future
Spawns == {t \in Tasks : tasks[t].pc # "spawned" /\ tasks'[t].pc = "spawned"}

C12_Counts ==
    /\ \A t \in Tasks : tasks[t].attempts <= 1 /\ tasks[t].posts <= 1
    /\ PostAttempts <= SubmitClicks
    /\ PostedResults <= SubmitClicks

C12_ClickSpawnsOne ==
    /\ SubmitStep => Cardinality(Spawns) = 1
    /\ ~SubmitStep => Spawns = {}
    /\ \A t \in Spawns : tasks'[t].attempts = 0 /\ tasks'[t].posts = 0

\* C12: the step that handles a submit click spawns exactly one future and
\* no other step spawns any; a future issues at most one POST and pushes at
\* most one string; and at every point the POSTs issued and the strings
\* pushed are each at most the submit clicks handled so far.
C12_OneAttemptPerClick == []C12_Counts /\ [][C12_ClickSpawnsOne]_vars

\* every slot was taken by a click: the first future could not build its
\* client and issued no POST, the others issued one each, and all have pushed
C12_Witness ==
    /\ SubmitClicks = MaxTasks
    /\ PostedResults = MaxTasks
    /\ PostAttempts = MaxTasks - 1
    /\ tasks[1].client.tag = "Err"

-----------------------------------------------------------------------------
(* The mutex around the mailbox.                                           *)

\* A critical section, once entered, runs to its end, and a thread blocked
\* in lock() gets a mutex that is released again and again: the mutex is
\* free but for the few instructions of each critical section.  No step of
\* the network and no input event is assumed to happen.
LockFairness ==
    /\ \A t \in Tasks : WF_vars(TaskPush(t) \/ TaskRepaint(t) \/ TaskReturn(t))
    /\ WF_vars(FrameDrain)
    /\ SF_vars(FrameLock)
    /\ \A t \in Tasks : SF_vars(TaskLock(t))

\* Up to MaxTasks futures contending with the frames for the mutex, every
\* request answered by the endpoint; the window stays open.
NextLock ==
    \/ \E cause \in {"repaint", "input"} : FrameStart(cause)
    \/ FrameLock
    \/ FrameDrain
    \/ \E i \in {NoInput, SubmitClick} : FrameUI(i, FreshSlots)
    \/ \E t \in Tasks :
        \/ TaskStart(t, Ok("client"))
        \/ \E r \in {Ok(200), Ok(500)} : TaskResponse(t, r)
        \/ TaskBody(t, Ok("server error"))
        \/ TaskLock(t)
        \/ TaskPush(t)
        \/ TaskRepaint(t)
        \/ TaskReturn(t)

SpecLock == Init /\ [][NextLock]_vars

FairLockSpec == SpecLock /\ LockFairness

\* the futures inside the critical section of lines 263-269
InCritical == {t \in Tasks : tasks[t].pc \in {"locked", "pushed", "repainted"}}

\* the threads that hold the guard, each named as the mutex names its owner
Holders ==
    {HeldBy(t) : t \in InCritical} \cup (IF frame_pc = "drain" THEN {Render} ELSE {})

\* the threads blocked in, or about to call, lock()
Requesters ==
    {HeldBy(t) : t \in {u \in Tasks : tasks[u].pc = "lock"}}
        \cup (IF frame_pc = "lock" THEN {Render} ELSE {})

C13_Exclusion ==
    /\ Cardinality(Holders) <= 1
    /\ Holders = {mutex} \ {Free}
    /\ \A t \in Tasks :
          tasks[t].pc \in {"spawned", "await_send", "await_text"} =>
              mutex # HeldBy(t)

C13_NoDeadlock ==
    Requesters # {} =>
        \/ mutex = Free /\ (ENABLED FrameLock \/ \E t \in Tasks : ENABLED TaskLock(t))
        \/ mutex = Render /\ ENABLED FrameDrain
        \/ \E t \in Tasks : mutex = HeldBy(t) /\ ENABLED TaskStep(t)

C13_Obtained ==
    /\ (frame_pc = "lock") ~> (frame_pc = "drain")
    /\ \A t \in Tasks : (tasks[t].pc = "lock") ~> (tasks[t].pc = "locked")

-----------------------------------------------------------------------------
(* The render loop and the network.                                        *)

\* the futures suspended at .send().await or at res.text().await
Suspended == {t \in Tasks : tasks[t].pc \in {"await_send", "await_text"}}

\* the futures that have not been polled yet
Unpolled == {t \in Tasks : tasks[t].pc = "spawned"}

C14_SpawnDetached ==
    SubmitStep =>
        /\ frame_pc' = "idle"
        /\ Spawns # {}
        /\ \A t \in Spawns :
              /\ tasks'[t].client = None /\ tasks'[t].body = None
              /\ tasks'[t].res = None /\ tasks'[t].result = None
              /\ tasks'[t].attempts = 0

C14_FrameGoesOn ==
    (InCritical = {} /\ frame_pc # "panicked") =>
        /\ (frame_pc = "idle" /\ window = "open") => ENABLED FrameStart("input")
        /\ frame_pc = "lock" => ENABLED FrameLock
        /\ frame_pc = "drain" => ENABLED FrameDrain
        /\ frame_pc = "ui" => ENABLED FrameUI(NoInput, Tasks)

\* C14: the step that handles a submit click ends the frame with the new
\* future spawned and not yet polled: no client built, nothing sent, no
\* result; and whatever futures are unpolled or suspended at the network
\* request or the body read, the next step of the render thread is enabled
\* at every point of a frame: it waits for nothing but a future that is
\* inside its critical section.
C14_RenderNeverWaitsForNetwork ==
    []C14_FrameGoesOn /\ [][C14_SpawnDetached]_vars

\* a frame without input has run to its end while every future is suspended
\* at the network, one of them at the body read
C14_Witness ==
    /\ frame_pc = "idle"
    /\ frame_input = NoInput
    /\ drained = None
    /\ Suspended = Tasks
    /\ \E t \in Tasks : tasks[t].pc = "await_text"

-----------------------------------------------------------------------------
(* The title bar: the close button under every pointer input.              *)

ChromeInputs == {NoInput, HoverClose, CloseClick, CloseTap, EditCard(SampleCard),
                 EditExpiry(SampleExpiry), EditCode(SampleCode)}

NextChrome ==
    \/ \E cause \in {"repaint", "input"} : FrameStart(cause)
    \/ FrameLock
    \/ FrameDrain
    \/ \E i \in ChromeInputs : FrameUI(i, Tasks)
    \/ HostExit

SpecChrome == Init /\ [][NextChrome]_vars

\* the step of the render thread that runs custom_title_bar and the panels
UIStep == frame_pc = "ui" /\ frame_pc' # "ui"

C15_DrawnByHover ==
    UIStep =>
        IF frame_input' \in {HoverClose, CloseClick}
        THEN painted'.close_fill = "red" /\ painted'.close_glyph = "white"
        ELSE painted'.close_fill = "transparent" /\ painted'.close_glyph = "black"

C15_OneCloseCommand ==
    /\ UIStep => commands' = IF frame_input' \in {CloseClick, CloseTap}
                              THEN <<"Close">> ELSE <<>>
    /\ ~UIStep => commands' \in {commands, <<>>}

\* C15: whatever the frame before drew, the frame paints the close button
\* red with a white X when its input has the pointer on the button and
\* transparent with a black X otherwise; a frame whose input has a click on
\* the button sends exactly one Close command and a frame without such a
\* click sends none.
C15_CloseControl == [][C15_DrawnByHover /\ C15_OneCloseCommand]_vars

\* with the form filled in, a frame with a mouse click on the button has
\* drawn it hovered and has sent the one Close command
C15_Witness ==
    /\ frame_pc = "idle"
    /\ frame_input = CloseClick
    /\ painted.close_fill = "red" /\ painted.close_glyph = "white"
    /\ commands = <<"Close">>
    /\ window = "closing"
    /\ card_number = SampleCard /\ security_code = SampleCode

-----------------------------------------------------------------------------
(* What one frame does to the mailbox and to the displayed message.        *)

C16_DrainTakesOne ==
    DrainStep =>
        Len(pending_messages') =
            IF Len(pending_messages) > 0 THEN Len(pending_messages) - 1 ELSE 0

C16_OnlyDrainRemoves ==
    ~DrainStep =>
        /\ Len(pending_messages') >= Len(pending_messages)
        /\ (frame_pc = "drain" \/ frame_pc' = "drain") => UNCHANGED pending_messages

\* C16: the Vec has the same m entries from the step at which the render
\* thread takes the guard to its pop; the pop-and-release step leaves m - 1
\* entries when m > 0 and none when m = 0; and no other step of a frame
\* removes an entry, so a frame removes at most one, whatever futures are
\* waiting to push.
C16_AtMostOnePerFrame == [][C16_DrainTakesOne /\ C16_OnlyDrainRemoves]_vars

\* a frame found every slot's string pending and has taken one of them
C16_Witness ==
    /\ frame_pc = "ui"
    /\ drained # None
    /\ Len(pending_messages) = MaxTasks - 1
    /\ \A t \in Tasks : tasks[t].pc = "done"

C17_WrittenByDrainOrSubmit ==
    message' # message =>
        \/ DrainStep /\ pending_messages # <<>>
                     /\ message' = Some(pending_messages[Len(pending_messages)])
        \/ SubmitStep

C17_OtherwiseKept ==
    /\ (DrainStep /\ pending_messages = <<>>) => message' = message
    /\ (UIStep /\ frame_input' # SubmitClick) => message' = message
    /\ TaskMoved => message' = message

\* C17: the displayed message changes only in the pop step of a frame that
\* finds an entry, which shows that entry, or in the step that handles a
\* submit click; a pop on the empty Vec and a UI step without a submit
\* click leave it as it was, and so does every step of a future.
C17_MessageWriters == [][C17_WrittenByDrainOrSubmit /\ C17_OtherwiseKept]_vars

\* the success string was drained and shown, and a later frame that found
\* the Vec empty and had no input has left it on display
C17_Witness ==
    /\ frame_pc = "idle"
    /\ frame_input = NoInput
    /\ drained = None
    /\ pending_messages = <<>>
    /\ tasks[1].pc = "done"
    /\ message = Some("Successfully sent card info!")

C18_DrainFirst ==
    (DrainStep /\ pending_messages # <<>>) =>
        /\ drained' = Some(pending_messages[Len(pending_messages)])
        /\ message' = drained'
        /\ pending_messages' = SubSeq(pending_messages, 1, Len(pending_messages) - 1)

C18_SubmitOverwrites ==
    (SubmitStep /\ drained # None) =>
        /\ message = drained
        /\ message' = Some("Th-thanks for your card ending in XXXX! (Sending...)")
        /\ message' # drained
        /\ UNCHANGED pending_messages

\* C18: in a frame the pop comes before the submit handler: the pop of a
\* non-empty Vec removes the entry and shows it, and when the same frame
\* then handles a submit click the message at the end of the frame is the
\* "Sending..." notice (the card number is empty here), not the entry the
\* frame has just drained, which stays removed.
C18_DrainBeforeSubmit == [][C18_DrainFirst /\ C18_SubmitOverwrites]_vars

\* the frame that drained the success string of the first future handled
\* the second submit click: the notice is on display, the Vec is empty
C18_Witness ==
    /\ frame_pc = "idle"
    /\ frame_input = SubmitClick
    /\ drained = Some("Successfully sent card info!")
    /\ drains[1] = <<drained>>
    /\ pending_messages = <<>>
    /\ message = Some("Th-thanks for your card ending in XXXX! (Sending...)")
    /\ tasks[2].pc = "spawned"

-----------------------------------------------------------------------------
(* The record a future sends, with the form edited while it is in flight.  *)

RecordInputs == {NoInput, SubmitClick, EditCard(SampleCard), EditExpiry(SampleExpiry)}

NextRecord ==
    \/ \E cause \in {"repaint", "input"} : FrameStart(cause)
    \/ FrameLock
    \/ FrameDrain
    \/ \E i \in RecordInputs : FrameUI(i, FreshSlots)
    \/ \E t \in Tasks :
        \/ TaskStart(t, Ok("client"))
        \/ TaskResponse(t, Ok(200))
        \/ TaskLock(t)
        \/ TaskPush(t)
        \/ TaskRepaint(t)
        \/ TaskReturn(t)

SpecRecord == Init /\ [][NextRecord]_vars

C19_SnapshotAtClick ==
    /\ Cardinality(Spawns) <= 1
    /\ \A t \in Spawns :
          tasks'[t].card_info =
              Some([card_number |-> card_number, expiry_date |-> expiry_date,
                    security_code |-> security_code])

C19_NeverMutated ==
    \A t \in Tasks \ Spawns :
        /\ tasks'[t].card_info = tasks[t].card_info
        /\ tasks[t].body # None => tasks'[t].body = tasks[t].body

C19_Serialized ==
    \A t \in Tasks :
        tasks[t].body # None => tasks[t].body = Some(Json(tasks[t].card_info.val))

\* C19: the step that handles a submit click gives the one future it spawns
\* the three fields of the form as they are at that step; no later step, an
\* edit of the form or the spawn of another future, changes the record of a
\* future or the JSON it has sent; and the JSON a future sends is that of
\* its own record.
C19_RecordIsSnapshot ==
    []C19_Serialized /\ [][C19_SnapshotAtClick /\ C19_NeverMutated]_vars

\* two futures in flight with the records of their own clicks, the first
\* sent before the edits that the second carries, the form edited again since
C19_Witness ==
    /\ tasks[1].body = Some("{\"card_number\":\"\",\"expiry_date\":\"\",\"security_code\":\"\"}")
    /\ tasks[2].card_info = Some([card_number |-> SampleCard, expiry_date |-> <<>>,
                                  security_code |-> <<>>])
    /\ tasks[2].pc = "await_send"
    /\ tasks[1].pc = "await_send"
    /\ expiry_date = SampleExpiry

-----------------------------------------------------------------------------
(* An embedded image that does not decode.                                 *)

C20_CacheStaysEmpty ==
    embedded_image = BadImage =>
        /\ anime_texture = None
        /\ image_size = <<150, 200>>
        /\ frame_pc # "panicked"

C20_FrameRuns ==
    embedded_image = BadImage =>
        /\ (frame_pc = "idle" /\ window = "open" /\ decode_count + 2 <= MaxDecodes)
              => ENABLED FrameStart("input")
        /\ frame_pc = "lock" => ENABLED FrameLock
        /\ frame_pc = "drain" => ENABLED FrameDrain
        /\ frame_pc = "ui" => ENABLED FrameUI(NoInput, Tasks)

C20_FallbackDrawn ==
    (embedded_image = BadImage /\ UIStep) =>
        /\ frame_pc' = "idle"
        /\ painted'.icon = "fallback square"
        /\ painted'.panel = "<Image Failed to Load>"

\* C20: when the embedded image does not decode, every call of load_image
\* returns with the texture absent and the dimensions at 150 x 200, no step
\* of a frame is blocked or panics, and every frame that reaches the title
\* bar and the image panel ends having drawn the fallback square and the
\* "<Image Failed to Load>" text.
C20_DecodeFailureDegrades ==
    [](C20_CacheStaysEmpty /\ C20_FrameRuns) /\ [][C20_FallbackDrawn]_vars

\* two frames, four failed calls of load_image, have run to their end
C20_Witness ==
    /\ embedded_image = BadImage
    /\ frame_pc = "idle"
    /\ decode_count >= 4
    /\ anime_texture = None
    /\ painted.icon = "fallback square"
    /\ painted.panel = "<Image Failed to Load>"

-----------------------------------------------------------------------------
(* The order in which pending results are shown.                           *)

\* s is an initial part of r
IsPrefix(s, r) == Len(s) <= Len(r) /\ SubSeq(r, 1, Len(s)) = s

\* the Vec holds its entries in posting order: a push adds at the end and
\* no step moves an entry
C21_PostingOrderKept ==
    \/ IsPrefix(pending_messages, pending_messages')
    \/ IsPrefix(pending_messages', pending_messages)

C21_NewestShownFirst ==
    (DrainStep /\ pending_messages # <<>>) =>
        /\ message' = Some(pending_messages[Len(pending_messages)])
        /\ pending_messages' = SubSeq(pending_messages, 1, Len(pending_messages) - 1)
        /\ pending_messages' = <<>> => message' = Some(pending_messages[1])

\* C21: the entries of the Vec stay in posting order and each frame's pop
\* takes and shows the most recently posted one, so pending results are
\* shown in reverse posting order, frame after frame, and the pop that
\* empties the Vec shows the earliest posted of them.
C21_LastInFirstOut == [][C21_PostingOrderKept /\ C21_NewestShownFirst]_vars

\* every future has posted, the results of the first two differ, frames
\* have popped them all, and the last frame, one without input, has left
\* the first slot's result on display with the Vec empty
C21_Witness ==
    /\ frame_pc = "idle" /\ frame_input = NoInput
    /\ pending_messages = <<>>
    /\ \A t \in Tasks : tasks[t].pc = "done" /\ Len(drains[t]) = 1
    /\ drains[1][1] # drains[2][1]
    /\ drained = drains[1][1]
    /\ message = drained

-----------------------------------------------------------------------------
(* The submit handler on card numbers that end in multi-byte characters.   *)

\* C22: whatever card number was typed, the frame that handles a submit
\* click is never aborted by the slice of line 445: it ends with one future
\* spawned and a "Sending..." notice on display.
C22_SubmitNeverAborts ==
    /\ frame_pc # "panicked"
    /\ Submitted =>
          /\ frame_pc = "idle"
          /\ message.tag = "Some"
          /\ \E suffix \in {"XXXX"} \cup {Text(LastChars(card_number, n)) : n \in 1..4} :
                message.val = "Th-thanks for your card ending in " \o suffix
                                  \o "! (Sending...)"

====
